---- MODULE Spec2Model ----
(***************************************************************************)
(* Distributed heat-spread relaxation (IHPCSS programming challenge 2021). *)
(* One MPI process per worker; each owns ROWS_PER_MPI_PROCESS rows of the  *)
(* grid plus two ghost rows.  Two builds of main() are modelled:           *)
(*   "gpu_c"    src/src/c/gpu.c       (no barrier after distribution,      *)
(*                                     blocking MPI_Gather, MPI_Wait on    *)
(*                                     the master in snapshot iterations)  *)
(*   "part_000" src/unnamed/part_000  (MPI_Barrier after distribution,     *)
(*                                     MPI_Igather, MPI_Wait on all ranks) *)
(* Temperatures are exact rationals held as integers scaled by Scale, so   *)
(* that "/ 3.0" and "0.25 *" are exact integer divisions for MaxIter       *)
(* iterations.                                                             *)
(***************************************************************************)
EXTENDS Integers, Sequences, FiniteSets, TLC

\* ------------------------------------------------------------- bounds
\* largest communicator size explored
MaxW == 3
\* largest number of loop iterations before the measured time is made to
\* reach the budget
MaxIter == 3
\* largest communicator size in the runs with concurrent kernel queues
StreamMaxW == 2

\* grid sizes and snapshot period: macros of util.h, scaled down
\* rows owned by one process
ROWS_PER_MPI_PROCESS == 2
\* columns of the grid, all held by every process
COLUMNS_PER_MPI_PROCESS == 4
\* a snapshot is taken every SNAPSHOT_INTERVAL iterations
SNAPSHOT_INTERVAL == 2

\* -------------------------------------------------- program constants
\* time budget of util.h; the clock of the model has the values below the
\* budget (0) and at the budget (MAX_TIME)
MAX_TIME == 1
MASTER_PROCESS_RANK == 0
FIRST_PROCESS_RANK == 0
\* the null rank of MPI, a negative value no process has
MPI_PROC_NULL == -1

RECURSIVE Pow(_, _)
Pow(b, e) == IF e = 0 THEN 1 ELSE b * Pow(b, e - 1)

\* one temperature unit; every update divides by 3 or by 4
Scale == Pow(12, MaxIter)
\* MAX_TEMPERATURE = 50.0
MAX_TEMPERATURE == 50 * Scale

Builds == {"gpu_c", "part_000"}

VARIABLES
    build,                  \* which main() runs
    comm_size,              \* MPI_Comm_size
    ROWS,                   \* global row count the build was compiled for
    garbage,                \* content of uninitialised stack memory
    all_temperatures,       \* master: the grid read at start
    temperatures,           \* host copy, per rank
    temperatures_last,      \* host copy, per rank
    dev_temperatures,       \* device copy (acc data copyin), per rank
    dev_temperatures_last,  \* device copy, per rank
    snapshot,               \* master: last snapshot
    pc,                     \* per rank: next statement
    dist_i,                 \* master: loop variable of the distribution loop
    iteration_count,        \* per rank
    total_time_so_far,      \* per rank
    my_temperature_change,  \* per rank
    global_temperature_change, \* per rank
    ssend,                  \* per rank: the synchronous send it is blocked in
    barrier_arrived,        \* ranks inside the MPI_Barrier before the loop
    iallreduce,             \* per rank: the reductions started, one record per iteration
    request1,               \* per rank: iterations whose MPI_Iallreduce is not waited on
    gather_sent,            \* per rank: rows handed to MPI_Gather / MPI_Igather
    gather_request,         \* per rank: iterations whose MPI_Igather is not waited on
    bcast,                  \* per rank: broadcast values not yet received
    stdout,                 \* master: lines printed
    left_by,                \* history: per rank, boundary rows at each loop entry
    gathered,               \* history: per rank, iterations in which it called the gather
    queued                  \* per rank: async queues holding a kernel that has not run

vars == << build, comm_size, ROWS, garbage, all_temperatures, temperatures,
           temperatures_last, dev_temperatures, dev_temperatures_last, snapshot,
           pc, dist_i, iteration_count, total_time_so_far, my_temperature_change,
           global_temperature_change, ssend, barrier_arrived, iallreduce, request1,
           gather_sent, gather_request, bcast, stdout, left_by, gathered, queued >>

\* ------------------------------------------------------------ helpers
Workers == 0 .. (comm_size - 1)
LAST_PROCESS_RANK == comm_size - 1
SlabRows == 0 .. (ROWS_PER_MPI_PROCESS + 1)
OwnedRows == 1 .. ROWS_PER_MPI_PROCESS
Cols == 0 .. (COLUMNS_PER_MPI_PROCESS - 1)

\* Rank of my up neighbour if any
up_neighbour_rank(w) == IF w = FIRST_PROCESS_RANK THEN MPI_PROC_NULL ELSE w - 1
\* variant: the ranks form a ring downwards
down_neighbour_ring(w) == (w + 1) % comm_size

\* Rank of my down neighbour if any
down_neighbour_rank(w) == IF w = LAST_PROCESS_RANK THEN MPI_PROC_NULL ELSE w + 1

\* an uninitialised double: whatever the stack held
JunkVal == 7 * Scale
GarbageKinds == {"zero", "junk"}
Uninitialised(g, i, j) ==
    IF g = "zero" THEN 0
    ELSE IF (i + j) % 2 = 0 THEN JunkVal ELSE 2 * JunkVal

\* uninitialised slab / snapshot
UninitSlab(g) == [i \in SlabRows |-> [j \in Cols |-> Uninitialised(g, i, j)]]

\* initialise_temperatures(): SMALL heats every 500th column, column 0
\* included; BIG heats a cross through the middle row and middle column
SmallGrid(R) == [r \in 0 .. (R - 1) |-> [c \in Cols |->
                   IF c = 0 THEN MAX_TEMPERATURE ELSE 0]]
BigGrid(R) == [r \in 0 .. (R - 1) |-> [c \in Cols |->
                   IF r = R \div 2 \/ c = COLUMNS_PER_MPI_PROCESS \div 2
                   THEN MAX_TEMPERATURE ELSE 0]]
initialise_temperatures(R) == {SmallGrid(R), BigGrid(R)}

NoMsg == [dst |-> MPI_PROC_NULL]

\* ---------------------------------------------------------------- Init
Init ==
    /\ build \in Builds
    /\ comm_size \in 1 .. MaxW
    /\ ROWS = comm_size * ROWS_PER_MPI_PROCESS
    /\ garbage \in GarbageKinds
    /\ all_temperatures \in initialise_temperatures(ROWS)
    /\ temperatures = [w \in Workers |-> UninitSlab(garbage)]
    /\ temperatures_last = [w \in Workers |-> UninitSlab(garbage)]
    /\ dev_temperatures = [w \in Workers |-> << >>]
    /\ dev_temperatures_last = [w \in Workers |-> << >>]
    /\ snapshot = [r \in 0 .. (ROWS - 1) |-> [c \in Cols |-> Uninitialised(garbage, r, c)]]
    /\ pc = [w \in Workers |-> "distribute"]
    /\ dist_i = 0
    /\ iteration_count = [w \in Workers |-> 0]
    /\ total_time_so_far = [w \in Workers |-> 0]
    /\ my_temperature_change = [w \in Workers |-> Uninitialised(garbage, 0, 0)]
    /\ global_temperature_change = [w \in Workers |-> Uninitialised(garbage, 0, 0)]
    /\ ssend = [w \in Workers |-> NoMsg]
    /\ barrier_arrived = {}
    /\ iallreduce = [w \in Workers |-> << >>]
    /\ request1 = [w \in Workers |-> {}]
    /\ gather_sent = [w \in Workers |-> << >>]
    /\ gather_request = [w \in Workers |-> {}]
    /\ bcast = [w \in Workers |-> << >>]
    /\ stdout = << >>
    /\ left_by = [w \in Workers |-> << >>]
    /\ gathered = [w \in Workers |-> << >>]
    /\ queued = [w \in Workers |-> {}]

\* ------------------------------------------------------ memory and MPI
\* count contiguous doubles starting at &arr[row0][0]
ReadFlat(arr, row0, count) ==
    [f \in 0 .. (count - 1) |->
        arr[row0 + (f \div COLUMNS_PER_MPI_PROCESS)][f % COLUMNS_PER_MPI_PROCESS]]

\* the doubles of data stored contiguously from &arr[row0][0]
WriteFlat(arr, row0, data) ==
    [i \in DOMAIN arr |-> [j \in Cols |->
        LET f == (i - row0) * COLUMNS_PER_MPI_PROCESS + j
        IN  IF f \in DOMAIN data THEN data[f] ELSE arr[i][j]]]

\* rows first .. first+n-1 of dst replaced by those of src (acc update, copies)
CopyRows(dst, src, rows) ==
    [i \in DOMAIN dst |-> IF i \in rows THEN src[i] ELSE dst[i]]

Max(S) == CHOOSE x \in S : \A y \in S : y <= x
Abs(x) == IF x < 0 THEN -x ELSE x

\* variant: both boundary rows are sent before anything is received, the
\* statement after the send up being the send down
AfterSsendBeforeRecv(p) ==
    CASE p = "distribute_ssend" ->
             IF dist_i + 1 = comm_size THEN "copy" ELSE "distribute"
      [] p = "ssend_up_wait" -> "ssend_down"
      [] p = "ssend_down_wait" -> "recv_up"
      [] OTHER -> p

\* where a rank continues once its MPI_Ssend has been matched
AfterSsend(p) ==
    CASE p = "distribute_ssend" ->
             IF dist_i + 1 = comm_size THEN "copy" ELSE "distribute"
      [] p = "ssend_up_wait" -> "recv_down"
      [] p = "ssend_down_wait" -> "recv_up"
      [] OTHER -> p

\* MPI_Recv(buf = &arr[row0][0], source = src, MPI_ANY_TAG) on rank w completing:
\* the pending synchronous send of src addressed to w is matched, its data
\* lands in the buffer, and the sender returns from MPI_Ssend
CanRecv(w, src) == ssend[src].dst = w

\* ------------------------------------------- TASK 1: distribute the data
\* master, chunk i is its own: copy it straight from all_temperatures
DistributeLocal ==
    /\ pc[MASTER_PROCESS_RANK] = "distribute"
    /\ dist_i < comm_size
    /\ dist_i = MASTER_PROCESS_RANK
    /\ temperatures_last' = [temperatures_last EXCEPT ![MASTER_PROCESS_RANK] =
           [j \in SlabRows |-> IF j \in OwnedRows
                               THEN all_temperatures[j - 1]
                               ELSE @[j]]]
    /\ dist_i' = dist_i + 1
    /\ pc' = [pc EXCEPT ![MASTER_PROCESS_RANK] =
                 IF dist_i + 1 = comm_size THEN "copy" ELSE "distribute"]
    /\ UNCHANGED << build, comm_size, ROWS, garbage, all_temperatures, temperatures,
                    dev_temperatures, dev_temperatures_last, snapshot,
                    iteration_count, total_time_so_far, my_temperature_change,
                    global_temperature_change, ssend, barrier_arrived, iallreduce,
                    request1, gather_sent, gather_request, bcast, stdout, left_by,
                    gathered, queued >>

\* variant: the block of rank i starts at row i
ChunkRowUnscaled(i) == i

\* first global row of the chunk sent to rank i
ChunkRow(i) == i * ROWS_PER_MPI_PROCESS

\* master, chunk i is for rank i: MPI_Ssend it
DistributeSsend ==
    /\ pc[MASTER_PROCESS_RANK] = "distribute"
    /\ dist_i < comm_size
    /\ dist_i # MASTER_PROCESS_RANK
    /\ ssend' = [ssend EXCEPT ![MASTER_PROCESS_RANK] =
           [dst |-> dist_i,
            buf |-> ReadFlat(all_temperatures, ChunkRow(dist_i),
                             ROWS_PER_MPI_PROCESS * COLUMNS_PER_MPI_PROCESS),
            tag |-> 0, kind |-> "chunk", iter |-> 0]]
    /\ pc' = [pc EXCEPT ![MASTER_PROCESS_RANK] = "distribute_ssend"]
    /\ UNCHANGED << build, comm_size, ROWS, garbage, all_temperatures, temperatures,
                    temperatures_last, dev_temperatures, dev_temperatures_last,
                    snapshot, dist_i, iteration_count, total_time_so_far,
                    my_temperature_change, global_temperature_change,
                    barrier_arrived, iallreduce, request1, gather_sent,
                    gather_request, bcast, stdout, left_by, gathered, queued >>

\* other ranks: "Receive my chunk."
RecvChunk(w) ==
    /\ w # MASTER_PROCESS_RANK
    /\ pc[w] = "distribute"
    /\ CanRecv(w, MASTER_PROCESS_RANK)
    /\ temperatures_last' = [temperatures_last EXCEPT ![w] =
           WriteFlat(@, 1, ssend[MASTER_PROCESS_RANK].buf)]
    /\ dist_i' = IF pc[MASTER_PROCESS_RANK] = "distribute_ssend"
                 THEN dist_i + 1 ELSE dist_i
    /\ pc' = [pc EXCEPT ![w] = "copy",
                        ![MASTER_PROCESS_RANK] = AfterSsend(@)]
    /\ ssend' = [ssend EXCEPT ![MASTER_PROCESS_RANK] = NoMsg]
    /\ UNCHANGED << build, comm_size, ROWS, garbage, all_temperatures, temperatures,
                    dev_temperatures, dev_temperatures_last, snapshot,
                    iteration_count, total_time_so_far, my_temperature_change,
                    global_temperature_change, barrier_arrived, iallreduce,
                    request1, gather_sent, gather_request, bcast, stdout, left_by,
                    gathered, queued >>

\* "Copy the temperatures into the current iteration temperature as well"
CopyTemperatures(w) ==
    /\ pc[w] = "copy"
    /\ temperatures' = [temperatures EXCEPT ![w] =
           CopyRows(@, temperatures_last[w], OwnedRows)]
    /\ stdout' = IF w = MASTER_PROCESS_RANK
                 THEN Append(stdout, [line |-> "Data acquisition complete."])
                 ELSE stdout
    /\ pc' = [pc EXCEPT ![w] = IF build = "part_000" THEN "barrier" ELSE "acc_data"]
    /\ UNCHANGED << build, comm_size, ROWS, garbage, all_temperatures,
                    temperatures_last, dev_temperatures, dev_temperatures_last,
                    snapshot, dist_i, iteration_count, total_time_so_far,
                    my_temperature_change, global_temperature_change, ssend,
                    barrier_arrived, iallreduce, request1, gather_sent,
                    gather_request, bcast, left_by, gathered, queued >>

\* part_000 only: "Wait for everybody to receive their part before we can
\* start processing" -- entering MPI_Barrier
BarrierArrive(w) ==
    /\ pc[w] = "barrier"
    /\ barrier_arrived' = barrier_arrived \cup {w}
    /\ pc' = [pc EXCEPT ![w] = "barrier_wait"]
    /\ UNCHANGED << build, comm_size, ROWS, garbage, all_temperatures, temperatures,
                    temperatures_last, dev_temperatures, dev_temperatures_last,
                    snapshot, dist_i, iteration_count, total_time_so_far,
                    my_temperature_change, global_temperature_change, ssend,
                    iallreduce, request1, gather_sent, gather_request, bcast,
                    stdout, left_by, gathered, queued >>

\* part_000 only: MPI_Barrier returns once every rank has entered it
BarrierLeave(w) ==
    /\ pc[w] = "barrier_wait"
    /\ barrier_arrived = Workers
    /\ pc' = [pc EXCEPT ![w] = "acc_data"]
    /\ UNCHANGED << build, comm_size, ROWS, garbage, all_temperatures, temperatures,
                    temperatures_last, dev_temperatures, dev_temperatures_last,
                    snapshot, dist_i, iteration_count, total_time_so_far,
                    my_temperature_change, global_temperature_change, ssend,
                    barrier_arrived, iallreduce, request1, gather_sent,
                    gather_request, bcast, stdout, left_by, gathered, queued >>

\* int iteration_count = 0; #pragma acc data copyin(temperatures, temperatures_last)
AccDataCopyin(w) ==
    /\ pc[w] = "acc_data"
    /\ iteration_count' = [iteration_count EXCEPT ![w] = 0]
    /\ dev_temperatures' = [dev_temperatures EXCEPT ![w] = temperatures[w]]
    /\ dev_temperatures_last' = [dev_temperatures_last EXCEPT ![w] = temperatures_last[w]]
    /\ pc' = [pc EXCEPT ![w] = "loop"]
    /\ UNCHANGED << build, comm_size, ROWS, garbage, all_temperatures, temperatures,
                    temperatures_last, snapshot, dist_i, total_time_so_far,
                    my_temperature_change, global_temperature_change, ssend,
                    barrier_arrived, iallreduce, request1, gather_sent,
                    gather_request, bcast, stdout, left_by, gathered, queued >>

\* ------------------------------------------------ TASK 2: the timed loop
\* the rows the loop entry brings back to the host for the halo sends
HaloSendRows == {1, ROWS_PER_MPI_PROCESS}

\* variant: the loop body without SUBTASK 1, the kernels follow the reset
LoopHeadNoExchange(w) ==
    /\ pc[w] = "loop"
    /\ IF total_time_so_far[w] < MAX_TIME
       THEN /\ my_temperature_change' = [my_temperature_change EXCEPT ![w] = 0]
            /\ temperatures' = [temperatures EXCEPT ![w] =
                   CopyRows(@, dev_temperatures[w], HaloSendRows)]
            /\ left_by' = [left_by EXCEPT ![w] = Append(@,
                   [top |-> dev_temperatures[w][1],
                    bottom |-> dev_temperatures[w][ROWS_PER_MPI_PROCESS]])]
            /\ pc' = [pc EXCEPT ![w] = "kernel1"]
       ELSE /\ pc' = [pc EXCEPT ![w] = "summary"]
            /\ UNCHANGED << my_temperature_change, temperatures, left_by >>
    /\ UNCHANGED << build, comm_size, ROWS, garbage, all_temperatures,
                    temperatures_last, dev_temperatures, dev_temperatures_last,
                    snapshot, dist_i, iteration_count, total_time_so_far,
                    global_temperature_change, ssend, barrier_arrived, iallreduce,
                    request1, gather_sent, gather_request, bcast, stdout,
                    gathered, queued >>

\* while(total_time_so_far < MAX_TIME) { my_temperature_change = 0.0;
\*   #pragma acc update host(temperatures[1:1], temperatures[ROWS_PER_MPI_PROCESS:1])
LoopHead(w) ==
    /\ pc[w] = "loop"
    /\ IF total_time_so_far[w] < MAX_TIME
       THEN /\ my_temperature_change' = [my_temperature_change EXCEPT ![w] = 0]
            /\ temperatures' = [temperatures EXCEPT ![w] =
                   CopyRows(@, dev_temperatures[w], HaloSendRows)]
            /\ left_by' = [left_by EXCEPT ![w] = Append(@,
                   [top |-> dev_temperatures[w][1],
                    bottom |-> dev_temperatures[w][ROWS_PER_MPI_PROCESS]])]
            /\ pc' = [pc EXCEPT ![w] = "ssend_up"]
       ELSE /\ pc' = [pc EXCEPT ![w] = "summary"]
            /\ UNCHANGED << my_temperature_change, temperatures, left_by >>
    /\ UNCHANGED << build, comm_size, ROWS, garbage, all_temperatures,
                    temperatures_last, dev_temperatures, dev_temperatures_last,
                    snapshot, dist_i, iteration_count, total_time_so_far,
                    global_temperature_change, ssend, barrier_arrived, iallreduce,
                    request1, gather_sent, gather_request, bcast, stdout,
                    gathered, queued >>

\* variant: the boundary row is sent out of temperatures_last, which the host
\* does not refresh from the device
HaloMsgFromLast(w, row, dst, kind) ==
    [dst |-> dst,
     buf |-> ReadFlat(temperatures_last[w], row, COLUMNS_PER_MPI_PROCESS),
     tag |-> 0, kind |-> kind, iter |-> iteration_count[w]]

\* the message of MPI_Ssend(&temperatures[row][0], COLUMNS_PER_MPI_PROCESS, ..., dst, 0, ...)
HaloMsg(w, row, dst, kind) ==
    [dst |-> dst,
     buf |-> ReadFlat(temperatures[w], row, COLUMNS_PER_MPI_PROCESS),
     tag |-> 0, kind |-> kind, iter |-> iteration_count[w]]

\* MPI_Ssend(&temperatures[1][0], ..., up_neighbour_rank, ...): returns at once
\* for MPI_PROC_NULL, otherwise blocks until the neighbour receives
SsendUp(w) ==
    /\ pc[w] = "ssend_up"
    /\ IF up_neighbour_rank(w) = MPI_PROC_NULL
       THEN /\ pc' = [pc EXCEPT ![w] = "recv_down"]
            /\ UNCHANGED ssend
       ELSE /\ ssend' = [ssend EXCEPT ![w] =
                   HaloMsg(w, 1, up_neighbour_rank(w), "row_up")]
            /\ pc' = [pc EXCEPT ![w] = "ssend_up_wait"]
    /\ UNCHANGED << build, comm_size, ROWS, garbage, all_temperatures, temperatures,
                    temperatures_last, dev_temperatures, dev_temperatures_last,
                    snapshot, dist_i, iteration_count, total_time_so_far,
                    my_temperature_change, global_temperature_change,
                    barrier_arrived, iallreduce, request1, gather_sent,
                    gather_request, bcast, stdout, left_by, gathered, queued >>

\* variant: the receive from below waits for a matching sender whatever the
\* source, MPI_PROC_NULL included
RecvDownFromSender(w) ==
    /\ pc[w] = "recv_down"
    /\ \E src \in Workers :
          /\ src = down_neighbour_rank(w)
          /\ CanRecv(w, src)
          /\ temperatures_last' = [temperatures_last EXCEPT ![w] =
                 WriteFlat(@, ROWS_PER_MPI_PROCESS + 1, ssend[src].buf)]
          /\ dist_i' = IF pc[src] = "distribute_ssend" THEN dist_i + 1 ELSE dist_i
          /\ pc' = [pc EXCEPT ![w] = "ssend_down", ![src] = AfterSsend(@)]
          /\ ssend' = [ssend EXCEPT ![src] = NoMsg]
    /\ UNCHANGED << build, comm_size, ROWS, garbage, all_temperatures, temperatures,
                    dev_temperatures, dev_temperatures_last, snapshot,
                    iteration_count, total_time_so_far, my_temperature_change,
                    global_temperature_change, barrier_arrived, iallreduce,
                    request1, gather_sent, gather_request, bcast, stdout, left_by,
                    gathered, queued >>

\* variant: the receive from below names MPI_ANY_SOURCE instead of the down
\* neighbour
RecvDownAnySource(w) ==
    /\ pc[w] = "recv_down"
    /\ IF down_neighbour_rank(w) = MPI_PROC_NULL
       THEN /\ pc' = [pc EXCEPT ![w] = "ssend_down"]
            /\ UNCHANGED << temperatures_last, ssend, dist_i >>
       ELSE \E src \in Workers :
            /\ CanRecv(w, src)
            /\ temperatures_last' = [temperatures_last EXCEPT ![w] =
                   WriteFlat(@, ROWS_PER_MPI_PROCESS + 1, ssend[src].buf)]
            /\ dist_i' = IF pc[src] = "distribute_ssend"
                         THEN dist_i + 1 ELSE dist_i
            /\ pc' = [pc EXCEPT ![w] = "ssend_down", ![src] = AfterSsend(@)]
            /\ ssend' = [ssend EXCEPT ![src] = NoMsg]
    /\ UNCHANGED << build, comm_size, ROWS, garbage, all_temperatures, temperatures,
                    dev_temperatures, dev_temperatures_last, snapshot,
                    iteration_count, total_time_so_far, my_temperature_change,
                    global_temperature_change, barrier_arrived, iallreduce,
                    request1, gather_sent, gather_request, bcast, stdout, left_by,
                    gathered, queued >>

\* MPI_Recv(&temperatures_last[ROWS_PER_MPI_PROCESS+1][0], ..., down_neighbour_rank, MPI_ANY_TAG, ...)
RecvDown(w) ==
    /\ pc[w] = "recv_down"
    /\ IF down_neighbour_rank(w) = MPI_PROC_NULL
       THEN /\ pc' = [pc EXCEPT ![w] = "ssend_down"]
            /\ UNCHANGED << temperatures_last, ssend, dist_i >>
       ELSE /\ CanRecv(w, down_neighbour_rank(w))
            /\ temperatures_last' = [temperatures_last EXCEPT ![w] =
                   WriteFlat(@, ROWS_PER_MPI_PROCESS + 1, ssend[down_neighbour_rank(w)].buf)]
            /\ dist_i' = IF pc[down_neighbour_rank(w)] = "distribute_ssend"
                         THEN dist_i + 1 ELSE dist_i
            /\ pc' = [pc EXCEPT ![w] = "ssend_down",
                                ![down_neighbour_rank(w)] = AfterSsend(@)]
            /\ ssend' = [ssend EXCEPT ![down_neighbour_rank(w)] = NoMsg]
    /\ UNCHANGED << build, comm_size, ROWS, garbage, all_temperatures, temperatures,
                    dev_temperatures, dev_temperatures_last, snapshot,
                    iteration_count, total_time_so_far, my_temperature_change,
                    global_temperature_change, barrier_arrived, iallreduce,
                    request1, gather_sent, gather_request, bcast, stdout, left_by,
                    gathered, queued >>

\* MPI_Ssend(&temperatures[ROWS_PER_MPI_PROCESS][0], ..., down_neighbour_rank, ...)
SsendDown(w) ==
    /\ pc[w] = "ssend_down"
    /\ IF down_neighbour_rank(w) = MPI_PROC_NULL
       THEN /\ pc' = [pc EXCEPT ![w] = "recv_up"]
            /\ UNCHANGED ssend
       ELSE /\ ssend' = [ssend EXCEPT ![w] =
                   HaloMsg(w, ROWS_PER_MPI_PROCESS, down_neighbour_rank(w), "row_down")]
            /\ pc' = [pc EXCEPT ![w] = "ssend_down_wait"]
    /\ UNCHANGED << build, comm_size, ROWS, garbage, all_temperatures, temperatures,
                    temperatures_last, dev_temperatures, dev_temperatures_last,
                    snapshot, dist_i, iteration_count, total_time_so_far,
                    my_temperature_change, global_temperature_change,
                    barrier_arrived, iallreduce, request1, gather_sent,
                    gather_request, bcast, stdout, left_by, gathered, queued >>

\* the ghost rows the device is refreshed with after the exchange
GhostRows == {0, ROWS_PER_MPI_PROCESS + 1}

\* MPI_Recv(&temperatures_last[0][0], ..., up_neighbour_rank, MPI_ANY_TAG, ...);
\* #pragma acc update device(temperatures_last[ROWS_PER_MPI_PROCESS+1:1], temperatures_last[0:1])
RecvUp(w) ==
    /\ pc[w] = "recv_up"
    /\ IF up_neighbour_rank(w) = MPI_PROC_NULL
       THEN /\ pc' = [pc EXCEPT ![w] = "kernel1"]
            /\ UNCHANGED << temperatures_last, ssend, dist_i >>
       ELSE /\ CanRecv(w, up_neighbour_rank(w))
            /\ temperatures_last' = [temperatures_last EXCEPT ![w] =
                   WriteFlat(@, 0, ssend[up_neighbour_rank(w)].buf)]
            /\ dist_i' = IF pc[up_neighbour_rank(w)] = "distribute_ssend"
                         THEN dist_i + 1 ELSE dist_i
            /\ pc' = [pc EXCEPT ![w] = "kernel1",
                                ![up_neighbour_rank(w)] = AfterSsend(@)]
            /\ ssend' = [ssend EXCEPT ![up_neighbour_rank(w)] = NoMsg]
    /\ dev_temperatures_last' = [dev_temperatures_last EXCEPT ![w] =
           CopyRows(@, temperatures_last'[w], GhostRows)]
    /\ UNCHANGED << build, comm_size, ROWS, garbage, all_temperatures, temperatures,
                    dev_temperatures, snapshot, iteration_count, total_time_so_far,
                    my_temperature_change, global_temperature_change,
                    barrier_arrived, iallreduce, request1, gather_sent,
                    gather_request, bcast, stdout, left_by, gathered, queued >>

\* ------------------------------------------------- the stencil kernels
\* variant: the kernels update every cell, heat sources included
NotSourceIgnored(v) == TRUE

\* if(temperatures[i][j] != MAX_TEMPERATURE): the cell is not a heat source
NotSource(v) == v # MAX_TEMPERATURE

\* (temperatures_last[i-1][0] + temperatures_last[i+1][0] + temperatures_last[i][1]) / 3.0
LeftEdgeCell(last, i) ==
    (last[i - 1][0] + last[i + 1][0] + last[i][1]) \div 3

\* variant: the interior cell takes the weight of the edge columns
InteriorCellThird(last, i, j) ==
    (last[i - 1][j] + last[i + 1][j] + last[i][j - 1] + last[i][j + 1]) \div 3

\* 0.25 * (temperatures_last[i-1][j] + temperatures_last[i+1][j] +
\*         temperatures_last[i][j-1] + temperatures_last[i][j+1])
InteriorCell(last, i, j) ==
    (last[i - 1][j] + last[i + 1][j] + last[i][j - 1] + last[i][j + 1]) \div 4

\* (temperatures_last[i-1][C-1] + temperatures_last[i+1][C-1] + temperatures_last[i][C-2]) / 3.0
RightEdgeCell(last, i) ==
    (last[i - 1][COLUMNS_PER_MPI_PROCESS - 1] +
     last[i + 1][COLUMNS_PER_MPI_PROCESS - 1] +
     last[i][COLUMNS_PER_MPI_PROCESS - 2]) \div 3

\* for(i = 1; i <= ROWS_PER_MPI_PROCESS; i++) over column 0
LeftEdgeKernel(cur, last) ==
    [i \in DOMAIN cur |-> [j \in Cols |->
        IF i \in OwnedRows /\ j = 0 /\ NotSource(cur[i][j])
        THEN LeftEdgeCell(last, i) ELSE cur[i][j]]]

\* variant: the interior kernel averages the neighbours in temperatures
InteriorKernelInPlace(cur, last) ==
    [i \in DOMAIN cur |-> [j \in Cols |->
        IF i \in OwnedRows /\ j >= 1 /\ j < COLUMNS_PER_MPI_PROCESS - 1
           /\ NotSource(cur[i][j])
        THEN InteriorCell(cur, i, j) ELSE cur[i][j]]]

\* for(i = 1; i <= ROWS_PER_MPI_PROCESS; i++) for(j = 1; j < COLUMNS_PER_MPI_PROCESS - 1; j++)
InteriorKernel(cur, last) ==
    [i \in DOMAIN cur |-> [j \in Cols |->
        IF i \in OwnedRows /\ j >= 1 /\ j < COLUMNS_PER_MPI_PROCESS - 1
           /\ NotSource(cur[i][j])
        THEN InteriorCell(last, i, j) ELSE cur[i][j]]]

\* for(i = 1; i <= ROWS_PER_MPI_PROCESS; i++) over column COLUMNS_PER_MPI_PROCESS - 1
RightEdgeKernel(cur, last) ==
    [i \in DOMAIN cur |-> [j \in Cols |->
        IF i \in OwnedRows /\ j = COLUMNS_PER_MPI_PROCESS - 1 /\ NotSource(cur[i][j])
        THEN RightEdgeCell(last, i) ELSE cur[i][j]]]

\* #pragma acc kernels async(1): left edge
Kernel1(w) ==
    /\ pc[w] = "kernel1"
    /\ dev_temperatures' = [dev_temperatures EXCEPT ![w] =
           LeftEdgeKernel(@, dev_temperatures_last[w])]
    /\ pc' = [pc EXCEPT ![w] = "kernel2"]
    /\ UNCHANGED << build, comm_size, ROWS, garbage, all_temperatures, temperatures,
                    temperatures_last, dev_temperatures_last, snapshot, dist_i,
                    iteration_count, total_time_so_far, my_temperature_change,
                    global_temperature_change, ssend, barrier_arrived, iallreduce,
                    request1, gather_sent, gather_request, bcast, stdout, left_by,
                    gathered, queued >>

\* #pragma acc kernels loop independent collapse(2) async(2): interior columns
Kernel2(w) ==
    /\ pc[w] = "kernel2"
    /\ dev_temperatures' = [dev_temperatures EXCEPT ![w] =
           InteriorKernel(@, dev_temperatures_last[w])]
    /\ pc' = [pc EXCEPT ![w] = "kernel3"]
    /\ UNCHANGED << build, comm_size, ROWS, garbage, all_temperatures, temperatures,
                    temperatures_last, dev_temperatures_last, snapshot, dist_i,
                    iteration_count, total_time_so_far, my_temperature_change,
                    global_temperature_change, ssend, barrier_arrived, iallreduce,
                    request1, gather_sent, gather_request, bcast, stdout, left_by,
                    gathered, queued >>

\* #pragma acc kernels async(3): right edge
Kernel3(w) ==
    /\ pc[w] = "kernel3"
    /\ dev_temperatures' = [dev_temperatures EXCEPT ![w] =
           RightEdgeKernel(@, dev_temperatures_last[w])]
    /\ pc' = [pc EXCEPT ![w] = "max_change"]
    /\ UNCHANGED << build, comm_size, ROWS, garbage, all_temperatures, temperatures,
                    temperatures_last, dev_temperatures_last, snapshot, dist_i,
                    iteration_count, total_time_so_far, my_temperature_change,
                    global_temperature_change, ssend, barrier_arrived, iallreduce,
                    request1, gather_sent, gather_request, bcast, stdout, left_by,
                    gathered, queued >>

\* fmax(fabs(temperatures[i][j] - temperatures_last[i][j]), my_temperature_change)
\* over the owned cells, starting from 0.0
LocalMaxChange(cur, last) ==
    Max({0} \cup {Abs(cur[i][j] - last[i][j]) : i \in OwnedRows, j \in Cols})

\* variant: the first snapshot is taken after SNAPSHOT_INTERVAL iterations
IsSnapshotIterationAfterFirst(k) == k > 0 /\ k % SNAPSHOT_INTERVAL = 0

IsSnapshotIteration(k) == k % SNAPSHOT_INTERVAL = 0

\* ------------------------------------------------------------ reduction
\* iallreduce[v][k + 1] is the reduction rank v started in iteration k: mine
\* is my_temperature_change at the call, sent the value the library read out
\* of the send buffer &my_temperature_change, read whether it has done so.
\* The library reads the buffer at some time between the call and the
\* completion of the request.  The record of a reduction is kept until the
\* rank starts the next one; by then the library has dealt with it and
\* nothing in the program refers to it any more.
Settled == [mine |-> 0, sent |-> 0, read |-> TRUE]

\* variant: the reduction of iteration k completes only once every rank has
\* started the following one
AllreduceStartedByNext(k) == \A v \in Workers : Len(iallreduce[v]) > k + 1

\* every rank has started the MPI_Iallreduce of iteration k
AllreduceStarted(k) == \A v \in Workers : Len(iallreduce[v]) > k
\* the library has read the send buffer when it held val, for every
\* reduction of the rank that is still unread
ReadSendBuffer(ops, val) ==
    [n \in DOMAIN ops |->
        IF ops[n].read THEN ops[n] ELSE [mine |-> ops[n].mine, sent |-> val, read |-> TRUE]]
\* variant: the wait returns while the send buffers are still unread
AllreduceNotComplete(k) == iallreduce

\* the reduction of iteration k completes: a send buffer the library has
\* not read before is read now, as its rank holds it at this moment
AllreduceComplete(k) ==
    [v \in Workers |->
        IF iallreduce[v][k + 1].read THEN iallreduce[v]
        ELSE [iallreduce[v] EXCEPT ![k + 1] =
                 [mine |-> @.mine, sent |-> my_temperature_change[v], read |-> TRUE]]]
\* MPI_MAX over the values read for iteration k
AllreduceResult(ops, k) == Max({ops[v][k + 1].sent : v \in Workers})
\* what the send buffer of a reduction of rank w nobody has waited for can
\* have held when the library read it, once the next iteration has written
\* my_temperature_change: the value of the call, the 0.0 of the reset, or
\* the new maximum
SendBufferValues(w, new) ==
    IF \E n \in DOMAIN iallreduce[w] : ~iallreduce[w][n].read
    THEN {iallreduce[w][Len(iallreduce[w])].mine, 0, new}
    ELSE {0}

\* variant: the reduction loop carries no wait clause
WaitQueuesNone(w) == TRUE

\* wait(1, 2, 3): the kernels put on the three async queues have all run
WaitQueues(w) == queued[w] = {}

\* variant: the reduction loop measures the change and copies nothing back
MaxChangeNoCopyBack(w) ==
    /\ pc[w] = "max_change"
    /\ WaitQueues(w)
    /\ my_temperature_change' = [my_temperature_change EXCEPT ![w] =
           LocalMaxChange(dev_temperatures[w], dev_temperatures_last[w])]
    /\ \E val \in SendBufferValues(w, my_temperature_change'[w]) :
           iallreduce' = [iallreduce EXCEPT ![w] = ReadSendBuffer(@, val)]
    /\ UNCHANGED dev_temperatures_last
    /\ pc' = [pc EXCEPT ![w] =
           IF build = "part_000" /\ IsSnapshotIteration(iteration_count[w])
           THEN "igather" ELSE "iallreduce"]
    /\ UNCHANGED << build, comm_size, ROWS, garbage, all_temperatures, temperatures,
                    temperatures_last, dev_temperatures, snapshot, dist_i,
                    iteration_count, total_time_so_far, global_temperature_change,
                    ssend, barrier_arrived, request1, gather_sent,
                    gather_request, bcast, stdout, left_by, gathered, queued >>

\* SUBTASK 3: my_temperature_change = 0.0; reduction loop that also does
\* temperatures_last[i][j] = temperatures[i][j]; its wait(1, 2, 3) holds it
\* back until the three queues are empty
MaxChange(w) ==
    /\ pc[w] = "max_change"
    /\ WaitQueues(w)
    /\ my_temperature_change' = [my_temperature_change EXCEPT ![w] =
           LocalMaxChange(dev_temperatures[w], dev_temperatures_last[w])]
    /\ \E val \in SendBufferValues(w, my_temperature_change'[w]) :
           iallreduce' = [iallreduce EXCEPT ![w] = ReadSendBuffer(@, val)]
    /\ dev_temperatures_last' = [dev_temperatures_last EXCEPT ![w] =
           CopyRows(@, dev_temperatures[w], OwnedRows)]
    /\ pc' = [pc EXCEPT ![w] =
           IF build = "part_000" /\ IsSnapshotIteration(iteration_count[w])
           THEN "igather" ELSE "iallreduce"]
    /\ UNCHANGED << build, comm_size, ROWS, garbage, all_temperatures, temperatures,
                    temperatures_last, dev_temperatures, snapshot, dist_i,
                    iteration_count, total_time_so_far, global_temperature_change,
                    ssend, barrier_arrived, request1, gather_sent,
                    gather_request, bcast, stdout, left_by, gathered, queued >>

\* ------------------------------------------------------------ snapshot
\* MPI_Iallreduce(&my_temperature_change, &global_temperature_change, 1,
\*                MPI_DOUBLE, MPI_MAX, MPI_COMM_WORLD, &request1)
Iallreduce(w) ==
    /\ pc[w] = "iallreduce"
    /\ iallreduce' = [iallreduce EXCEPT ![w] =
           Append([n \in DOMAIN @ |-> Settled],
                  [mine |-> my_temperature_change[w], sent |-> 0, read |-> FALSE])]
    /\ request1' = [request1 EXCEPT ![w] = @ \cup {iteration_count[w]}]
    /\ pc' = [pc EXCEPT ![w] =
           IF build = "part_000" THEN "wait_allreduce"
           ELSE IF IsSnapshotIteration(iteration_count[w])
                THEN (IF w = MASTER_PROCESS_RANK THEN "snapshot_wait" ELSE "gather")
                ELSE "bcast"]
    /\ UNCHANGED << build, comm_size, ROWS, garbage, all_temperatures, temperatures,
                    temperatures_last, dev_temperatures, dev_temperatures_last,
                    snapshot, dist_i, iteration_count, total_time_so_far,
                    my_temperature_change, global_temperature_change, ssend,
                    barrier_arrived, gather_sent, gather_request, bcast, stdout,
                    left_by, gathered, queued >>

\* printf("Iteration %d: %.18f\n", iteration_count, global_temperature_change)
IterationLine(k, change) == [line |-> "Iteration", iteration |-> k, change |-> change]

\* variant: the transfer before the wait goes from the host to the device
SnapshotWaitUpdateDevice(w) ==
    /\ pc[w] = "snapshot_wait"
    /\ AllreduceStarted(iteration_count[w])
    /\ iallreduce' = AllreduceComplete(iteration_count[w])
    /\ dev_temperatures' = [dev_temperatures EXCEPT ![w] =
           CopyRows(@, temperatures[w], OwnedRows)]
    /\ global_temperature_change' = [global_temperature_change EXCEPT ![w] =
           AllreduceResult(iallreduce', iteration_count[w])]
    /\ request1' = [request1 EXCEPT ![w] = @ \ {iteration_count[w]}]
    /\ stdout' = Append(stdout, IterationLine(iteration_count[w],
                                              global_temperature_change'[w]))
    /\ pc' = [pc EXCEPT ![w] = "gather"]
    /\ UNCHANGED << build, comm_size, ROWS, garbage, all_temperatures,
                    temperatures, temperatures_last, dev_temperatures_last,
                    snapshot, dist_i, iteration_count, total_time_so_far,
                    my_temperature_change, ssend, barrier_arrived,
                    gather_sent, gather_request, bcast, left_by, gathered,
                    queued >>

\* gpu.c, master in a snapshot iteration: #pragma acc update host(temperatures[1:ROWS_PER_MPI_PROCESS]);
\* MPI_Wait(&request1, &status); printf(...)
SnapshotWait(w) ==
    /\ pc[w] = "snapshot_wait"
    /\ AllreduceStarted(iteration_count[w])
    /\ iallreduce' = AllreduceComplete(iteration_count[w])
    /\ temperatures' = [temperatures EXCEPT ![w] =
           CopyRows(@, dev_temperatures[w], OwnedRows)]
    /\ global_temperature_change' = [global_temperature_change EXCEPT ![w] =
           AllreduceResult(iallreduce', iteration_count[w])]
    /\ request1' = [request1 EXCEPT ![w] = @ \ {iteration_count[w]}]
    /\ stdout' = Append(stdout, IterationLine(iteration_count[w],
                                              global_temperature_change'[w]))
    /\ pc' = [pc EXCEPT ![w] = "gather"]
    /\ UNCHANGED << build, comm_size, ROWS, garbage, all_temperatures,
                    temperatures_last, dev_temperatures, dev_temperatures_last,
                    snapshot, dist_i, iteration_count, total_time_so_far,
                    my_temperature_change, ssend, barrier_arrived,
                    gather_sent, gather_request, bcast, left_by, gathered,
                    queued >>

\* the receive buffer of the gather on the master: rank r's block lands at
\* offset r * ROWS_PER_MPI_PROCESS * COLUMNS_PER_MPI_PROCESS
Gathered(old, blocks) ==
    [r \in DOMAIN old |-> [c \in Cols |->
        LET v == r \div ROWS_PER_MPI_PROCESS
            f == (r % ROWS_PER_MPI_PROCESS) * COLUMNS_PER_MPI_PROCESS + c
        IN  IF v \in DOMAIN blocks THEN blocks[v][f] ELSE old[r][c]]]

\* the owned rows as MPI_Gather / MPI_Igather read them from the host array
GatherBlock(arr) ==
    ReadFlat(arr, 1, ROWS_PER_MPI_PROCESS * COLUMNS_PER_MPI_PROCESS)

\* gpu.c: [other ranks: #pragma acc update host(temperatures[1:ROWS_PER_MPI_PROCESS]);]
\* MPI_Gather(&temperatures[1][0], ..., snapshot, ..., MASTER_PROCESS_RANK, ...)
Gather(w) ==
    /\ pc[w] = "gather"
    /\ IF w = MASTER_PROCESS_RANK
       THEN /\ \A v \in Workers \ {w} : gather_sent[v] # << >>
            /\ snapshot' = Gathered(snapshot,
                   [v \in Workers |-> IF v = w THEN GatherBlock(temperatures[w])
                                      ELSE Head(gather_sent[v]).buf])
            /\ gather_sent' = [v \in Workers |->
                   IF v = w THEN gather_sent[v] ELSE Tail(gather_sent[v])]
            /\ UNCHANGED temperatures
       ELSE /\ temperatures' = [temperatures EXCEPT ![w] =
                   CopyRows(@, dev_temperatures[w], OwnedRows)]
            /\ gather_sent' = [gather_sent EXCEPT ![w] = Append(@,
                   [iter |-> iteration_count[w],
                    buf |-> GatherBlock(temperatures'[w]),
                    landed |-> GatherBlock(temperatures'[w])])]
            /\ UNCHANGED snapshot
    /\ pc' = [pc EXCEPT ![w] = "bcast"]
    /\ gathered' = [gathered EXCEPT ![w] = Append(@, iteration_count[w])]
    /\ UNCHANGED << build, comm_size, ROWS, garbage, all_temperatures,
                    temperatures_last, dev_temperatures, dev_temperatures_last,
                    dist_i, iteration_count, total_time_so_far,
                    my_temperature_change, global_temperature_change, ssend,
                    barrier_arrived, iallreduce, request1, gather_request, bcast,
                    stdout, left_by, queued >>

\* part_000, snapshot iteration: #pragma acc update host(temperatures[1:ROWS_PER_MPI_PROCESS]) wait(1, 2, 3) async(4);
\* MPI_Igather(&temperatures[1][0], ..., snapshot, ..., &gather_request).
\* The transfer on queue 4 is not waited for, so MPI reads the host rows while
\* the transfer writes them: buf is what they hold before the transfer,
\* landed what they hold after it.
Igather(w) ==
    /\ pc[w] = "igather"
    /\ gather_sent' = [gather_sent EXCEPT ![w] = Append(@,
           [iter |-> iteration_count[w],
            buf |-> GatherBlock(temperatures[w]),
            landed |-> GatherBlock(dev_temperatures[w])])]
    /\ temperatures' = [temperatures EXCEPT ![w] =
           CopyRows(@, dev_temperatures[w], OwnedRows)]
    /\ gather_request' = [gather_request EXCEPT ![w] = @ \cup {iteration_count[w]}]
    /\ pc' = [pc EXCEPT ![w] = "iallreduce"]
    /\ gathered' = [gathered EXCEPT ![w] = Append(@, iteration_count[w])]
    /\ UNCHANGED << build, comm_size, ROWS, garbage, all_temperatures,
                    temperatures_last, dev_temperatures, dev_temperatures_last,
                    snapshot, dist_i, iteration_count, total_time_so_far,
                    my_temperature_change, global_temperature_change, ssend,
                    barrier_arrived, iallreduce, request1, bcast, stdout, left_by,
                    queued >>

\* part_000: MPI_Wait(&request1, MPI_STATUS_IGNORE) on every rank
WaitAllreduce(w) ==
    /\ pc[w] = "wait_allreduce"
    /\ AllreduceStarted(iteration_count[w])
    /\ iallreduce' = AllreduceComplete(iteration_count[w])
    /\ global_temperature_change' = [global_temperature_change EXCEPT ![w] =
           AllreduceResult(iallreduce', iteration_count[w])]
    /\ request1' = [request1 EXCEPT ![w] = @ \ {iteration_count[w]}]
    /\ pc' = [pc EXCEPT ![w] =
           IF IsSnapshotIteration(iteration_count[w]) /\ w = MASTER_PROCESS_RANK
           THEN "wait_gather" ELSE "bcast"]
    /\ UNCHANGED << build, comm_size, ROWS, garbage, all_temperatures, temperatures,
                    temperatures_last, dev_temperatures, dev_temperatures_last,
                    snapshot, dist_i, iteration_count, total_time_so_far,
                    my_temperature_change, ssend, barrier_arrived,
                    gather_sent, gather_request, bcast, stdout, left_by,
                    gathered, queued >>

\* part_000, master in a snapshot iteration: MPI_Wait(&gather_request, MPI_STATUS_IGNORE); printf(...)
\* The blocks that arrive are those MPI read: before the queue-4 transfers
\* landed, or after.
WaitGather(w) ==
    /\ pc[w] = "wait_gather"
    /\ \A v \in Workers : gather_sent[v] # << >>
    /\ \E transferred \in BOOLEAN :
           snapshot' = Gathered(snapshot, [v \in Workers |->
               IF transferred THEN Head(gather_sent[v]).landed
               ELSE Head(gather_sent[v]).buf])
    /\ gather_sent' = [v \in Workers |-> Tail(gather_sent[v])]
    /\ gather_request' = [gather_request EXCEPT ![w] = @ \ {iteration_count[w]}]
    /\ stdout' = Append(stdout, IterationLine(iteration_count[w],
                                              global_temperature_change[w]))
    /\ pc' = [pc EXCEPT ![w] = "bcast"]
    /\ UNCHANGED << build, comm_size, ROWS, garbage, all_temperatures, temperatures,
                    temperatures_last, dev_temperatures, dev_temperatures_last,
                    dist_i, iteration_count, total_time_so_far,
                    my_temperature_change, global_temperature_change, ssend,
                    barrier_arrived, iallreduce, request1, bcast, left_by,
                    gathered, queued >>

\* ------------------------------------------------------- time and exit
\* MPI_Wtime() - start_time on the master: the clock never runs backwards, and
\* the budget is reached at the latest after MaxIter iterations
Elapsed(w) ==
    {t \in total_time_so_far[w] .. MAX_TIME :
        iteration_count[w] + 1 >= MaxIter => t >= MAX_TIME}

\* variant: every rank tests its own clock, nothing is broadcast
BcastLocalClock(w) ==
    /\ pc[w] = "bcast"
    /\ \E t \in Elapsed(w) :
          total_time_so_far' = [total_time_so_far EXCEPT ![w] = t]
    /\ iteration_count' = [iteration_count EXCEPT ![w] = @ + 1]
    /\ pc' = [pc EXCEPT ![w] = "loop"]
    /\ UNCHANGED << build, comm_size, ROWS, garbage, all_temperatures, temperatures,
                    temperatures_last, dev_temperatures, dev_temperatures_last,
                    snapshot, dist_i, my_temperature_change,
                    global_temperature_change, ssend, barrier_arrived, iallreduce,
                    request1, gather_sent, gather_request, bcast, stdout, left_by,
                    gathered, queued >>

\* [master: total_time_so_far = MPI_Wtime() - start_time;]
\* MPI_Bcast(&total_time_so_far, 1, MPI_DOUBLE, MASTER_PROCESS_RANK, ...); iteration_count++
Bcast(w) ==
    /\ pc[w] = "bcast"
    /\ IF w = MASTER_PROCESS_RANK
       THEN \E t \in Elapsed(w) :
               /\ total_time_so_far' = [total_time_so_far EXCEPT ![w] = t]
               /\ bcast' = [v \in Workers |->
                      IF v = w THEN bcast[v] ELSE Append(bcast[v], t)]
       ELSE /\ bcast[w] # << >>
            /\ total_time_so_far' = [total_time_so_far EXCEPT ![w] = Head(bcast[w])]
            /\ bcast' = [bcast EXCEPT ![w] = Tail(@)]
    /\ iteration_count' = [iteration_count EXCEPT ![w] = @ + 1]
    /\ pc' = [pc EXCEPT ![w] = "loop"]
    /\ UNCHANGED << build, comm_size, ROWS, garbage, all_temperatures, temperatures,
                    temperatures_last, dev_temperatures, dev_temperatures_last,
                    snapshot, dist_i, my_temperature_change,
                    global_temperature_change, ssend, barrier_arrived, iallreduce,
                    request1, gather_sent, gather_request, stdout, left_by,
                    gathered, queued >>

\* FINALISATION 2: the master prints the summary; MPI_Finalize(); return EXIT_SUCCESS
Summary(w) ==
    /\ pc[w] = "summary"
    /\ stdout' = IF w = MASTER_PROCESS_RANK
                 THEN Append(stdout, [line |-> "The program took",
                                      seconds |-> total_time_so_far[w],
                                      iterations |-> iteration_count[w]])
                 ELSE stdout
    /\ pc' = [pc EXCEPT ![w] = "done"]
    /\ UNCHANGED << build, comm_size, ROWS, garbage, all_temperatures, temperatures,
                    temperatures_last, dev_temperatures, dev_temperatures_last,
                    snapshot, dist_i, iteration_count, total_time_so_far,
                    my_temperature_change, global_temperature_change, ssend,
                    barrier_arrived, iallreduce, request1, gather_sent,
                    gather_request, bcast, left_by, gathered, queued >>

\* ------------------------------------------------------- specification
Next ==
    \/ DistributeLocal
    \/ DistributeSsend
    \/ \E w \in Workers : RecvChunk(w)
    \/ \E w \in Workers : CopyTemperatures(w)
    \/ \E w \in Workers : BarrierArrive(w)
    \/ \E w \in Workers : BarrierLeave(w)
    \/ \E w \in Workers : AccDataCopyin(w)
    \/ \E w \in Workers : LoopHead(w)
    \/ \E w \in Workers : SsendUp(w)
    \/ \E w \in Workers : RecvDown(w)
    \/ \E w \in Workers : SsendDown(w)
    \/ \E w \in Workers : RecvUp(w)
    \/ \E w \in Workers : Kernel1(w)
    \/ \E w \in Workers : Kernel2(w)
    \/ \E w \in Workers : Kernel3(w)
    \/ \E w \in Workers : MaxChange(w)
    \/ \E w \in Workers : Iallreduce(w)
    \/ \E w \in Workers : SnapshotWait(w)
    \/ \E w \in Workers : Gather(w)
    \/ \E w \in Workers : Igather(w)
    \/ \E w \in Workers : WaitAllreduce(w)
    \/ \E w \in Workers : WaitGather(w)
    \/ \E w \in Workers : Bcast(w)
    \/ \E w \in Workers : Summary(w)

Spec == Init /\ [][Next]_vars

\* every process keeps running: a step that can be taken is eventually taken
FairSpec == Spec /\ WF_vars(Next)

AllDone == \A w \in Workers : pc[w] = "done"
Terminates == <>AllDone

\* ============================================================ properties
\* the four calls of the halo exchange, and being blocked in the two sends
ExchangePcs == {"ssend_up", "ssend_up_wait", "recv_down",
                "ssend_down", "ssend_down_wait", "recv_up"}
\* the stencil kernels, which read the ghost rows
KernelPcs == {"kernel1", "kernel2", "kernel3"}
\* statements of the loop body
BodyPcs == ExchangePcs \cup KernelPcs \cup
           {"max_change", "igather", "iallreduce", "wait_allreduce",
            "snapshot_wait", "gather", "wait_gather", "bcast"}
\* every variable but pc
data_vars == << build, comm_size, ROWS, garbage, all_temperatures, temperatures,
                temperatures_last, dev_temperatures, dev_temperatures_last,
                snapshot, dist_i, iteration_count, total_time_so_far,
                my_temperature_change, global_temperature_change, ssend,
                barrier_arrived, iallreduce, request1, gather_sent,
                gather_request, bcast, stdout, left_by, gathered,
                queued >>

\* C1: for every communicator size and in every iteration the halo exchange
\* is deadlock-free: whenever ranks are in one of the four calls (send up,
\* receive from below, send down, receive from above), blocked or not, a
\* state follows in which none is, and a rank leaves the four calls only by
\* completing the last of them; no rank stays blocked forever.
C1_ExchangeCompletes ==
    (\E w \in Workers : pc[w] \in ExchangePcs)
        ~> (\A w \in Workers : pc[w] \notin ExchangePcs)

\* C1 witness: with three ranks, the middle rank (two real neighbours) has
\* completed the exchange of its second iteration.
C1_Witness ==
    /\ comm_size = 3
    /\ pc[1] = "kernel1"
    /\ iteration_count[1] = 1

\* C2: when the stencil kernels of iteration k read the ghost rows of rank w,
\* its exchange of iteration k is complete and the ghost rows on the device
\* hold the neighbours' boundary rows as iteration k-1 left them: row 0 the
\* upper neighbour's owned row ROWS_PER_MPI_PROCESS, row
\* ROWS_PER_MPI_PROCESS+1 the lower neighbour's owned row 1.
C2_GhostRowsFresh ==
    \A w \in Workers :
        pc[w] \in KernelPcs =>
            LET k == iteration_count[w]
                up == up_neighbour_rank(w)
                down == down_neighbour_rank(w)
            IN  /\ ssend[w] = NoMsg
                /\ up # MPI_PROC_NULL =>
                      /\ Len(left_by[up]) > k
                      /\ dev_temperatures_last[w][0] = left_by[up][k + 1].bottom
                /\ down # MPI_PROC_NULL =>
                      /\ Len(left_by[down]) > k
                      /\ dev_temperatures_last[w][ROWS_PER_MPI_PROCESS + 1]
                             = left_by[down][k + 1].top

\* C2 witness: the middle of three ranks starts the kernels of its second
\* iteration with a ghost row that the first iteration of its upper
\* neighbour changed.
C2_Witness ==
    /\ comm_size = 3
    /\ pc[1] = "kernel1"
    /\ iteration_count[1] = 1
    /\ left_by[0][2].bottom # left_by[0][1].bottom
    /\ dev_temperatures_last[1][0] = left_by[0][2].bottom

\* C3, no blocking: a send to or a receive from MPI_PROC_NULL can be taken
\* at once.
NullCallReady(w) ==
    /\ (pc[w] = "ssend_up" /\ up_neighbour_rank(w) = MPI_PROC_NULL)
           => ENABLED SsendUp(w)
    /\ (pc[w] = "recv_up" /\ up_neighbour_rank(w) = MPI_PROC_NULL)
           => ENABLED RecvUp(w)
    /\ (pc[w] = "ssend_down" /\ down_neighbour_rank(w) = MPI_PROC_NULL)
           => ENABLED SsendDown(w)
    /\ (pc[w] = "recv_down" /\ down_neighbour_rank(w) = MPI_PROC_NULL)
           => ENABLED RecvDown(w)

\* C3, no effect: the step rank w takes out of such a call moves only w to
\* its next statement, transfers no message and leaves the ghost row the
\* call names as it was; with one rank nothing but pc changes.
NullCallStep(w) ==
    /\ (pc[w] = "ssend_up" /\ up_neighbour_rank(w) = MPI_PROC_NULL /\ pc'[w] # pc[w])
           => /\ pc' = [pc EXCEPT ![w] = "recv_down"]
              /\ UNCHANGED data_vars
    /\ (pc[w] = "recv_down" /\ down_neighbour_rank(w) = MPI_PROC_NULL /\ pc'[w] # pc[w])
           => /\ pc' = [pc EXCEPT ![w] = "ssend_down"]
              /\ UNCHANGED data_vars
    /\ (pc[w] = "ssend_down" /\ down_neighbour_rank(w) = MPI_PROC_NULL /\ pc'[w] # pc[w])
           => /\ pc' = [pc EXCEPT ![w] = "recv_up"]
              /\ UNCHANGED data_vars
    /\ (pc[w] = "recv_up" /\ up_neighbour_rank(w) = MPI_PROC_NULL /\ pc'[w] # pc[w])
           => /\ pc' = [pc EXCEPT ![w] = "kernel1"]
              /\ ssend' = ssend
              /\ temperatures_last' = temperatures_last
              /\ dev_temperatures_last'[w][0] = dev_temperatures_last[w][0]
              /\ comm_size = 1 => UNCHANGED data_vars

\* C3: an exchange step addressed to MPI_PROC_NULL (send up and receive from
\* above on rank 0, send down and receive from below on the last rank)
\* returns without blocking, transfers no message and leaves the ghost row
\* unchanged; with a single rank the whole exchange changes no state.
C3_NullNeighbourNoOp ==
    /\ [](\A w \in Workers : NullCallReady(w))
    /\ [][\A w \in Workers : NullCallStep(w)]_vars

\* C3 witness: with three ranks, the last rank is past its receive from and
\* its send to the missing lower neighbour while rank 0, past its send to
\* the missing upper neighbour, is blocked sending down.
C3_Witness ==
    /\ comm_size = 3
    /\ pc[2] = "recv_up"
    /\ pc[0] = "ssend_down_wait"
    /\ iteration_count[2] = 1

\* C4: all ranks leave the loop after the same number of iterations. Each
\* evaluation of the loop condition after the first tests the elapsed time
\* the master measured at the end of the preceding iteration and broadcast;
\* no rank has left the loop after iteration k while another executes
\* iteration k+1; the final iteration counts are equal.
C4_LoopExitInStep ==
    \A w \in Workers :
        /\ (pc[w] = "loop" /\ iteration_count[w] > 0) =>
               /\ iteration_count[MASTER_PROCESS_RANK] = iteration_count[w]
               /\ total_time_so_far[w] = total_time_so_far[MASTER_PROCESS_RANK]
        /\ \A v \in Workers :
               pc[v] \in {"summary", "done"} =>
                   /\ iteration_count[w] <= iteration_count[v]
                   /\ pc[w] \in BodyPcs => iteration_count[w] < iteration_count[v]
        /\ AllDone => iteration_count[w] = iteration_count[MASTER_PROCESS_RANK]

\* C4 witness: with three ranks, the master has left the loop after two
\* iterations while the last rank still waits for the broadcast of the second.
C4_Witness ==
    /\ comm_size = 3
    /\ pc[0] = "done"
    /\ iteration_count[0] = 2
    /\ pc[2] = "bcast"
    /\ iteration_count[2] = 1

\* the block of rank w is in place in both host arrays
Distributed(w) == pc[w] \notin {"distribute", "distribute_ssend", "copy"}
\* the owned cell (i, j) of rank w started as a heat source
SourceCell(w, i, j) ==
    all_temperatures[w * ROWS_PER_MPI_PROCESS + i - 1][j] = MAX_TEMPERATURE
\* the arrays of rank w are present on the device
OnDevice(w) == pc[w] \notin {"distribute", "distribute_ssend", "copy",
                             "barrier", "barrier_wait", "acc_data"}

C6_StencilMatchesReference ==
    \A w \in Workers :
        /\ pc[w] = "max_change" =>
             \A i \in OwnedRows : \A j \in Cols :
                ~SourceCell(w, i, j) =>
                    LET cur == dev_temperatures[w]
                        last == dev_temperatures_last[w]
                    IN  IF j = 0
                        THEN 3 * cur[i][j] =
                                 last[i - 1][j] + last[i + 1][j] + last[i][j + 1]
                        ELSE IF j = COLUMNS_PER_MPI_PROCESS - 1
                        THEN 3 * cur[i][j] =
                                 last[i - 1][j] + last[i + 1][j] + last[i][j - 1]
                        ELSE 4 * cur[i][j] =
                                 last[i - 1][j] + last[i + 1][j]
                                 + last[i][j - 1] + last[i][j + 1]
        /\ OnDevice(w) =>
             \A g \in GhostRows :
                /\ dev_temperatures[w][g] = UninitSlab(garbage)[g]
                /\ temperatures[w][g] = UninitSlab(garbage)[g]

\* C6 witness: the middle of three ranks has run the kernels of its second
\* iteration and they changed a cell in each of the three column regions.
C6_Witness ==
    /\ comm_size = 3
    /\ pc[1] = "max_change"
    /\ iteration_count[1] = 1
    /\ \A j \in {0, 1, COLUMNS_PER_MPI_PROCESS - 1} : \E i \in OwnedRows :
           dev_temperatures[1][i][j] # dev_temperatures_last[1][i][j]

\* the sum and the number of the neighbours of cell (i, j) that lie inside
\* the global grid, for a rank whose row i has no row above (noUp) or no row
\* below (noDown) in the grid
InGridSum(last, i, j, noUp, noDown) ==
    (IF noUp THEN 0 ELSE last[i - 1][j])
    + (IF noDown THEN 0 ELSE last[i + 1][j])
    + (IF j = 0 THEN 0 ELSE last[i][j - 1])
    + (IF j = COLUMNS_PER_MPI_PROCESS - 1 THEN 0 ELSE last[i][j + 1])
InGridCount(j, noUp, noDown) ==
    (IF noUp THEN 0 ELSE 1) + (IF noDown THEN 0 ELSE 1)
    + (IF j = 0 THEN 0 ELSE 1)
    + (IF j = COLUMNS_PER_MPI_PROCESS - 1 THEN 0 ELSE 1)

\* C7: on the rank without an upper neighbour the update of owned row 1 does
\* not use ghost row 0, and on the rank without a lower neighbour the update
\* of owned row ROWS_PER_MPI_PROCESS does not use ghost row
\* ROWS_PER_MPI_PROCESS+1: the new value of a cell of those rows that is not
\* a heat source is the average of its neighbours inside the global grid.
C7_EdgeRowsUseGridCellsOnly ==
    \A w \in Workers :
        pc[w] = "max_change" =>
            \A i \in OwnedRows : \A j \in Cols :
                LET noUp == i = 1 /\ up_neighbour_rank(w) = MPI_PROC_NULL
                    noDown == i = ROWS_PER_MPI_PROCESS
                              /\ down_neighbour_rank(w) = MPI_PROC_NULL
                IN  ((noUp \/ noDown) /\ ~SourceCell(w, i, j)) =>
                        InGridCount(j, noUp, noDown) * dev_temperatures[w][i][j]
                            = InGridSum(dev_temperatures_last[w], i, j, noUp, noDown)

\* C8: the distribution is a scatter of contiguous row blocks. When rank w
\* has its block (from the copy into temperatures up to its first loop
\* test), rows 1..ROWS_PER_MPI_PROCESS of temperatures_last are the global
\* rows w*ROWS_PER_MPI_PROCESS .. (w+1)*ROWS_PER_MPI_PROCESS-1 of the initial
\* grid and the same rows of temperatures equal them; a rank receives one
\* block only: once it has left the receive no block addressed to it is
\* pending and the master has moved on to a later rank.
C8_DistributionIsScatter ==
    \A w \in Workers :
        /\ (pc[w] \in {"barrier", "barrier_wait", "acc_data"}
            \/ (pc[w] = "loop" /\ iteration_count[w] = 0)) =>
               \A i \in OwnedRows :
                   /\ temperatures_last[w][i]
                          = all_temperatures[w * ROWS_PER_MPI_PROCESS + i - 1]
                   /\ temperatures[w][i] = temperatures_last[w][i]
        /\ (w # MASTER_PROCESS_RANK /\ pc[w] # "distribute") =>
               /\ dist_i > w
               /\ \A v \in Workers :
                      ssend[v].dst = w => ssend[v].kind # "chunk"

\* C8 witness: three ranks all hold their block of a grid whose rows differ
\* and stand before the loop.
C8_Witness ==
    /\ comm_size = 3
    /\ all_temperatures = BigGrid(ROWS)
    /\ \A w \in Workers : pc[w] = "acc_data"
    /\ temperatures[0] # temperatures[1]
    /\ temperatures[1] # temperatures[2]

C10_NoLoopBeforeAllCopied ==
    \A w \in Workers : \A v \in Workers :
        (pc[w] \in (BodyPcs \ {"ssend_up"}) \/ iteration_count[w] > 0)
            => Distributed(v)

\* ------------------------------------------------------------ C11
\* the reductions of iteration k of all ranks have their contribution read
ContributionsRead(k) ==
    \A v \in Workers : Len(iallreduce[v]) > k /\ iallreduce[v][k + 1].read
\* MPI_MAX over the local maxima the ranks computed in iteration k
MaxOfIteration(k) == Max({iallreduce[v][k + 1].mine : v \in Workers})

\* C11: the metric a reduction of iteration k delivers is the maximum over
\* the ranks of the local maximum change of iteration k, and is built from
\* the contribution each rank computed in iteration k only: every value the
\* library reads out of a send buffer is the one its rank handed over.
C11_ReductionOfOneIteration ==
    /\ \A v \in Workers : \A n \in DOMAIN iallreduce[v] :
           iallreduce[v][n].read => iallreduce[v][n].sent = iallreduce[v][n].mine
    /\ \A k \in 0 .. (MaxIter - 1) :
           ContributionsRead(k) => AllreduceResult(iallreduce, k) = MaxOfIteration(k)

\* ------------------------------------------------------------ C12
\* no rank has started a reduction after that of iteration k
LatestReduction(k) == \A v \in Workers : Len(iallreduce[v]) = k + 1

\* positions in stdout of the lines "Iteration k: metric"
ProgressLines == {n \in DOMAIN stdout : stdout[n].line = "Iteration"}

\* C12: every progress line the master has printed belongs to an iteration
\* whose request the master has waited on, and as long as the reduction of
\* the last line is the latest one, the printed value is its completed
\* result: all contributions read, maximum of the local maxima.
C12_PrintedAfterWait ==
    \A n \in ProgressLines :
        LET k == stdout[n].iteration
        IN  /\ k \notin request1[MASTER_PROCESS_RANK]
            /\ Len(iallreduce[MASTER_PROCESS_RANK]) > k
            /\ (n = Len(stdout) /\ LatestReduction(k)) =>
                   /\ ContributionsRead(k)
                   /\ stdout[n].change = AllreduceResult(iallreduce, k)
                   /\ stdout[n].change = MaxOfIteration(k)

\* a progress line of a later snapshot iteration with a non-zero metric is
\* on the screen, several ranks having contributed
C12_Witness ==
    /\ comm_size > 1
    /\ Len(stdout) \in ProgressLines
    /\ stdout[Len(stdout)].iteration > 0
    /\ stdout[Len(stdout)].change > 0
    /\ LatestReduction(stdout[Len(stdout)].iteration)

\* ------------------------------------------------------------ C13
\* the master has left the gather of a snapshot iteration and not yet
\* broadcast the time, so every rank is still in that iteration
GatherCompleted ==
    /\ pc[MASTER_PROCESS_RANK] = "bcast"
    /\ IsSnapshotIteration(iteration_count[MASTER_PROCESS_RANK])

\* C13: once the gather of a snapshot iteration has completed on the master,
\* row v * ROWS_PER_MPI_PROCESS + i of snapshot is owned row i + 1 of
\* temperatures of rank v as the kernels of that iteration left it.
C13_SnapshotIsCurrent ==
    GatherCompleted =>
        \A v \in Workers : \A i \in 0 .. (ROWS_PER_MPI_PROCESS - 1) :
            /\ iteration_count[v] = iteration_count[MASTER_PROCESS_RANK]
            /\ snapshot[v * ROWS_PER_MPI_PROCESS + i] = dev_temperatures[v][i + 1]

\* ------------------------------------------------------------ C14
\* the iterations k < n with k mod SNAPSHOT_INTERVAL = 0, in order
SnapshotIterationsBelow(n) ==
    [i \in 1 .. ((n + SNAPSHOT_INTERVAL - 1) \div SNAPSHOT_INTERVAL) |->
        (i - 1) * SNAPSHOT_INTERVAL]
\* positions of a rank behind the gather call of its current iteration
PastGatherPcs ==
    IF build = "gpu_c" THEN {"bcast"}
    ELSE {"iallreduce", "wait_allreduce", "wait_gather", "bcast"}
\* positions of the master behind the printf of its current iteration
PastPrintPcs == IF build = "gpu_c" THEN {"gather", "bcast"} ELSE {"bcast"}
\* iterations rank w has passed the gather call (the printf) of
PassedGather(w) == iteration_count[w] + (IF pc[w] \in PastGatherPcs THEN 1 ELSE 0)
PassedPrint(w) == iteration_count[w] + (IF pc[w] \in PastPrintPcs THEN 1 ELSE 0)
\* the progress lines printed so far
ProgressOutput == SelectSeq(stdout, LAMBDA l : l.line = "Iteration")

\* C14: each rank has called the gather exactly once in each iteration k with
\* k mod SNAPSHOT_INTERVAL = 0 it has passed, iteration 0 included, and in no
\* other; the progress lines are exactly one per such iteration of the
\* master, carry k and a metric >= 0, and only the master is ever at a printf.
C14_SnapshotEveryInterval ==
    /\ \A w \in Workers : gathered[w] = SnapshotIterationsBelow(PassedGather(w))
    /\ [n \in DOMAIN ProgressOutput |-> ProgressOutput[n].iteration]
           = SnapshotIterationsBelow(PassedPrint(MASTER_PROCESS_RANK))
    /\ \A n \in DOMAIN ProgressOutput : ProgressOutput[n].change >= 0
    /\ \A w \in Workers \ {MASTER_PROCESS_RANK} :
           pc[w] \notin {"snapshot_wait", "wait_gather"}

\* every rank of several has finished the second snapshot iteration, with
\* at least one iteration without snapshot before it
C14_Witness ==
    /\ comm_size > 1
    /\ SNAPSHOT_INTERVAL > 1
    /\ \A w \in Workers :
           /\ Len(gathered[w]) = 2
           /\ iteration_count[w] = SNAPSHOT_INTERVAL + 1
    /\ Len(ProgressOutput) = 2

\* ------------------------------------------------------------ C15
\* C15: the snapshot the master holds once the gather of iteration 0 has
\* completed is the initial grid that was distributed, cell by cell.
C15_FirstSnapshotIsInitialGrid ==
    (GatherCompleted /\ iteration_count[MASTER_PROCESS_RANK] = 0) =>
        snapshot = all_temperatures

\* ------------------------------------------------------------ C16
\* TASK 1 up to the data region: distribution, copy, barrier
DistributingPcs ==
    {"distribute", "distribute_ssend", "copy", "barrier", "barrier_wait",
     "acc_data"}
\* the phase of a position: 1 DISTRIBUTING, 2 ITERATING, 3 FINALIZING, 4 DONE;
\* INIT is what precedes the initial state
PhaseOf(p) ==
    CASE p \in DistributingPcs -> 1
      [] p \in BodyPcs \cup {"loop"} -> 2
      [] p = "summary" -> 3
      [] p = "done" -> 4
      [] OTHER -> 0
\* a step keeps the phase of rank w or moves it to the next one, and leaves
\* the loop only at the loop test, on the time the master broadcast
PhaseStep(w) ==
    /\ PhaseOf(pc'[w]) \in {PhaseOf(pc[w]), PhaseOf(pc[w]) + 1}
    /\ (PhaseOf(pc[w]) = 2 /\ PhaseOf(pc'[w]) = 3) =>
           /\ pc[w] = "loop"
           /\ total_time_so_far[w] >= MAX_TIME
           /\ total_time_so_far[w] = total_time_so_far[MASTER_PROCESS_RANK]

MismatchInit ==
    /\ build \in Builds
    /\ comm_size \in 2 .. MaxW
    /\ ROWS = comm_size * ROWS_PER_MPI_PROCESS + 1
    /\ garbage \in GarbageKinds
    /\ all_temperatures \in initialise_temperatures(ROWS)
    /\ temperatures = [w \in Workers |-> UninitSlab(garbage)]
    /\ temperatures_last = [w \in Workers |-> UninitSlab(garbage)]
    /\ dev_temperatures = [w \in Workers |-> << >>]
    /\ dev_temperatures_last = [w \in Workers |-> << >>]
    /\ snapshot = [r \in 0 .. (ROWS - 1) |-> [c \in Cols |-> Uninitialised(garbage, r, c)]]
    /\ pc = [w \in Workers |-> "distribute"]
    /\ dist_i = 0
    /\ iteration_count = [w \in Workers |-> 0]
    /\ total_time_so_far = [w \in Workers |-> 0]
    /\ my_temperature_change = [w \in Workers |-> Uninitialised(garbage, 0, 0)]
    /\ global_temperature_change = [w \in Workers |-> Uninitialised(garbage, 0, 0)]
    /\ ssend = [w \in Workers |-> NoMsg]
    /\ barrier_arrived = {}
    /\ iallreduce = [w \in Workers |-> << >>]
    /\ request1 = [w \in Workers |-> {}]
    /\ gather_sent = [w \in Workers |-> << >>]
    /\ gather_request = [w \in Workers |-> {}]
    /\ bcast = [w \in Workers |-> << >>]
    /\ stdout = << >>
    /\ left_by = [w \in Workers |-> << >>]
    /\ gathered = [w \in Workers |-> << >>]
    /\ queued = [w \in Workers |-> {}]

MismatchSpec == MismatchInit /\ [][Next]_vars

\* C17: when comm_size * ROWS_PER_MPI_PROCESS differs from ROWS the run stops
\* before the distribution: no block is handed out, no rank gets past the
\* first statement of TASK 1.
C17_MismatchIsFatal ==
    ROWS # comm_size * ROWS_PER_MPI_PROCESS =>
        /\ dist_i = 0
        /\ \A w \in Workers : pc[w] = "distribute"

\* ------------------------------------------------------------ C18
ZeroRow == [j \in Cols |-> 0]
\* C18: before the distribution every cell of temperatures and
\* temperatures_last, ghost rows included, is 0, and whenever a rank without
\* upper (lower) neighbour is in the stencil kernels, ghost row 0 (ghost row
\* ROWS_PER_MPI_PROCESS + 1) of the array the stencil reads holds 0.
C18_SlabsStartZero ==
    /\ (dist_i = 0 /\ \A w \in Workers : pc[w] = "distribute") =>
           \A w \in Workers : \A i \in SlabRows :
               temperatures[w][i] = ZeroRow /\ temperatures_last[w][i] = ZeroRow
    /\ \A w \in Workers : pc[w] \in KernelPcs =>
           /\ up_neighbour_rank(w) = MPI_PROC_NULL =>
                  dev_temperatures_last[w][0] = ZeroRow
           /\ down_neighbour_rank(w) = MPI_PROC_NULL =>
                  dev_temperatures_last[w][ROWS_PER_MPI_PROCESS + 1] = ZeroRow

\* ------------------------------------------------------------ C19
\* the array f, with all its cells computed
Stored(f) == IF f = f THEN f ELSE f

\* the slabs on the device of every rank and the local maxima, as the loop
\* without SUBTASK 6 leaves them for the test that precedes iteration k:
\* exchange of the boundary rows, the three kernels, maximum and copy back
RECURSIVE SlabsBefore(_)
SlabsBefore(k) ==
    IF k = 0
    THEN LET slab == [w \in Workers |-> [i \in SlabRows |-> [j \in Cols |->
                         IF i \in OwnedRows
                         THEN all_temperatures[ChunkRow(w) + i - 1][j]
                         ELSE Uninitialised(garbage, i, j)]]]
         IN  [cur |-> slab, last |-> slab,
              change |-> [w \in Workers |-> Uninitialised(garbage, 0, 0)]]
    ELSE LET b == SlabsBefore(k - 1)
             last == Stored([w \in Workers |-> [i \in SlabRows |->
                         IF i = 0 /\ up_neighbour_rank(w) # MPI_PROC_NULL
                         THEN b.cur[up_neighbour_rank(w)][ROWS_PER_MPI_PROCESS]
                         ELSE IF i = ROWS_PER_MPI_PROCESS + 1
                                 /\ down_neighbour_rank(w) # MPI_PROC_NULL
                         THEN b.cur[down_neighbour_rank(w)][1]
                         ELSE b.last[w][i]]])
             cur == Stored([w \in Workers |->
                        RightEdgeKernel(
                            InteriorKernel(LeftEdgeKernel(b.cur[w], last[w]), last[w]),
                            last[w])])
         IN  [cur |-> cur,
              last |-> [w \in Workers |-> CopyRows(last[w], cur[w], OwnedRows)],
              change |-> [w \in Workers |-> LocalMaxChange(cur[w], last[w])]]

\* positions of SUBTASK 6 and of the gather of part_000
SnapshotPcs == {"snapshot_wait", "gather", "igather", "wait_gather"}
\* a step of rank w at one of them leaves the slabs of every rank, on the
\* device and temperatures_last on the host, and the local maxima alone
SnapshotStep(w) ==
    (pc[w] \in SnapshotPcs /\ pc'[w] # pc[w]) =>
        UNCHANGED << dev_temperatures, dev_temperatures_last, temperatures_last,
                     my_temperature_change >>

Queues == {1, 2, 3}

\* the kernel of a queue: async(1) left edge, async(2) interior, async(3) right edge
KernelOnQueue(q, cur, last) ==
    CASE q = 1 -> LeftEdgeKernel(cur, last)
      [] q = 2 -> InteriorKernel(cur, last)
      [] q = 3 -> RightEdgeKernel(cur, last)

\* the cells temperatures[i][j] a kernel may assign
CellsWritten(q) ==
    {<<i, j>> \in OwnedRows \X Cols :
        CASE q = 1 -> j = 0
          [] q = 2 -> j >= 1 /\ j < COLUMNS_PER_MPI_PROCESS - 1
          [] q = 3 -> j = COLUMNS_PER_MPI_PROCESS - 1}
\* the cells of temperatures a kernel reads: those of its own guard
\* if(temperatures[i][j] != MAX_TEMPERATURE), each before it is assigned
CurrentCellsRead(q) == CellsWritten(q)

\* #pragma acc kernels async(1) ... async(2) ... async(3): the host queues the
\* three kernels and goes on
LaunchKernels(w) ==
    /\ pc[w] = "kernel1"
    /\ queued[w] = {}
    /\ queued' = [queued EXCEPT ![w] = Queues]
    /\ pc' = [pc EXCEPT ![w] = "max_change"]
    /\ UNCHANGED << build, comm_size, ROWS, garbage, all_temperatures, temperatures,
                    temperatures_last, dev_temperatures, dev_temperatures_last,
                    snapshot, dist_i, iteration_count, total_time_so_far,
                    my_temperature_change, global_temperature_change, ssend,
                    barrier_arrived, iallreduce, request1, gather_sent,
                    gather_request, bcast, stdout, left_by, gathered >>

\* the device runs the kernel of queue q
RunKernel(w, q) ==
    /\ q \in queued[w]
    /\ dev_temperatures' = [dev_temperatures EXCEPT ![w] =
           KernelOnQueue(q, @, dev_temperatures_last[w])]
    /\ queued' = [queued EXCEPT ![w] = @ \ {q}]
    /\ UNCHANGED << build, comm_size, ROWS, garbage, all_temperatures, temperatures,
                    temperatures_last, dev_temperatures_last, snapshot, pc, dist_i,
                    iteration_count, total_time_so_far, my_temperature_change,
                    global_temperature_change, ssend, barrier_arrived, iallreduce,
                    request1, gather_sent, gather_request, bcast, stdout, left_by,
                    gathered >>

StreamNext ==
    \/ DistributeLocal
    \/ DistributeSsend
    \/ \E w \in Workers : RecvChunk(w)
    \/ \E w \in Workers : CopyTemperatures(w)
    \/ \E w \in Workers : BarrierArrive(w)
    \/ \E w \in Workers : BarrierLeave(w)
    \/ \E w \in Workers : AccDataCopyin(w)
    \/ \E w \in Workers : LoopHead(w)
    \/ \E w \in Workers : SsendUp(w)
    \/ \E w \in Workers : RecvDown(w)
    \/ \E w \in Workers : SsendDown(w)
    \/ \E w \in Workers : RecvUp(w)
    \/ \E w \in Workers : LaunchKernels(w)
    \/ \E w \in Workers : \E q \in Queues : RunKernel(w, q)
    \/ \E w \in Workers : MaxChange(w)
    \/ \E w \in Workers : Iallreduce(w)
    \/ \E w \in Workers : SnapshotWait(w)
    \/ \E w \in Workers : Gather(w)
    \/ \E w \in Workers : Igather(w)
    \/ \E w \in Workers : WaitAllreduce(w)
    \/ \E w \in Workers : WaitGather(w)
    \/ \E w \in Workers : Bcast(w)
    \/ \E w \in Workers : Summary(w)

\* the queues of a rank are its own: runs of up to StreamMaxW ranks show them
\* next to those of a neighbour
StreamInit == Init /\ comm_size <= StreamMaxW

StreamSpec == StreamInit /\ [][StreamNext]_vars

\* the kernels of rank w are queued or have run, SUBTASK 3 has not
InKernels(w) == pc[w] = "max_change"
\* a step of the device changes temperatures of rank w at most in the cells
\* of the kernel it ran, and never temperatures_last
WritesOwnCellsOnly(w) ==
    \A q \in Queues : (q \in queued[w] /\ q \notin queued'[w]) =>
        /\ \A i \in SlabRows : \A j \in Cols :
               <<i, j>> \notin CellsWritten(q) =>
                   dev_temperatures'[w][i][j] = dev_temperatures[w][i][j]
        /\ UNCHANGED dev_temperatures_last

\* C20: the kernels of queues 1, 2 and 3 assign disjoint cells of
\* temperatures; the only cells of temperatures a kernel reads are its own,
\* which no kernel has assigned yet in this iteration and which still hold
\* the value of temperatures_last; and in whatever order the queues run, once
\* all three have run temperatures is what running them one after the other
\* gives.
C20_KernelsOrderIndependent ==
    /\ [](\A q \in Queues : \A r \in Queues \ {q} :
             /\ CellsWritten(q) \cap CellsWritten(r) = {}
             /\ CurrentCellsRead(q) \cap CellsWritten(r) = {})
    /\ [](\A w \in Workers : InKernels(w) =>
             /\ \A q \in queued[w] : \A c \in CurrentCellsRead(q) :
                    dev_temperatures[w][c[1]][c[2]] = dev_temperatures_last[w][c[1]][c[2]]
             /\ queued[w] = {} =>
                    dev_temperatures[w] = SlabsBefore(iteration_count[w] + 1).cur[w])
    /\ [][\A w \in Workers : WritesOwnCellsOnly(w)]_vars

\* in a later iteration the right edge kernel has run before the other two,
\* which are still queued, and has changed a cell
C20_Witness ==
    \E w \in Workers :
        /\ iteration_count[w] > 0
        /\ queued[w] = {1, 2}
        /\ \E i \in OwnedRows :
               dev_temperatures[w][i][COLUMNS_PER_MPI_PROCESS - 1]
                   # dev_temperatures_last[w][i][COLUMNS_PER_MPI_PROCESS - 1]

\* ------------------------------------------------------------ C21
\* rank w executes SUBTASK 3 in this step
MaxChangeStep(w) == pc[w] = "max_change" /\ pc'[w] # "max_change"
\* a cell of temperatures_last on the device of rank w is overwritten, or
\* my_temperature_change of rank w is assigned, in this step
MeasuresOrOverwrites(w) ==
    \/ /\ dev_temperatures_last[w] # << >>
       /\ \E i \in OwnedRows : dev_temperatures_last'[w][i] # dev_temperatures_last[w][i]
    \/ my_temperature_change'[w] # my_temperature_change[w]

\* C21: SUBTASK 3 runs only when the kernels of queues 1, 2 and 3 of the
\* same iteration have all run: no step measures a change or overwrites an
\* owned cell of temperatures_last while a kernel is queued, and what the
\* step measures and copies back is the completely updated temperatures.
C21_MaxChangeAfterKernels ==
    [][\A w \in Workers :
          /\ (MeasuresOrOverwrites(w) /\ pc[w] # "loop") =>
                 /\ MaxChangeStep(w)
                 /\ queued[w] = {}
          /\ MaxChangeStep(w) =>
                 LET b == SlabsBefore(iteration_count[w] + 1)
                 IN  /\ queued[w] = {}
                     /\ dev_temperatures[w] = b.cur[w]
                     /\ my_temperature_change'[w] = b.change[w]
                     /\ dev_temperatures_last'[w] = b.last[w]]_vars

\* in a later iteration SUBTASK 3 of a rank is held back: the host is at the
\* reduction loop while the interior kernel is still queued and the left
\* edge kernel has run
C21_Witness ==
    \E w \in Workers :
        /\ iteration_count[w] > 0
        /\ pc[w] = "max_change"
        /\ queued[w] = {2, 3}
        /\ \E i \in OwnedRows :
               dev_temperatures[w][i][0] # dev_temperatures_last[w][i][0]

\* ------------------------------------------------------------ C22
\* the boundary row a rank has handed to MPI_Ssend is that row of
\* temperatures on its device
HaloSendCoherent ==
    \A w \in Workers :
        /\ (ssend[w] # NoMsg /\ ssend[w].kind = "row_up") =>
               ssend[w].buf = ReadFlat(dev_temperatures[w], 1, COLUMNS_PER_MPI_PROCESS)
        /\ (ssend[w] # NoMsg /\ ssend[w].kind = "row_down") =>
               ssend[w].buf = ReadFlat(dev_temperatures[w], ROWS_PER_MPI_PROCESS,
                                       COLUMNS_PER_MPI_PROCESS)
\* when the kernels are launched the ghost rows of temperatures_last on the
\* device are those on the host
GhostRowsCoherent ==
    \A w \in Workers :
        pc[w] \in {"kernel1", "kernel2", "kernel3"} =>
            \A i \in GhostRows : dev_temperatures_last[w][i] = temperatures_last[w][i]
\* what the gather can read of the host rows of a rank is what the device
\* holds: gpu.c on the master at MPI_Gather, and for every posted block the
\* host rows before and after the transfer
GatherCoherent ==
    /\ \A w \in Workers : \A n \in DOMAIN gather_sent[w] :
           gather_sent[w][n].buf = gather_sent[w][n].landed
    /\ pc[MASTER_PROCESS_RANK] = "gather" =>
           GatherBlock(temperatures[MASTER_PROCESS_RANK]) =
               GatherBlock(dev_temperatures[MASTER_PROCESS_RANK])

\* C22: host and device copies agree wherever one side's data is consumed
\* on the other: the boundary rows handed to the halo sends are the device
\* rows, the device ghost rows at the start of the kernels are the rows
\* received on the host, and the host rows the snapshot gather reads are the
\* device rows of this iteration, their transfer having completed.
C22_HostDeviceCoherent ==
    /\ HaloSendCoherent
    /\ GhostRowsCoherent
    /\ GatherCoherent

\* ------------------------------------------------------------ C23
\* rank w has completed its first halo exchange
ExchangedOnce(w) ==
    \/ iteration_count[w] > 0
    \/ PhaseOf(pc[w]) >= 2 /\ pc[w] \notin ExchangePcs \cup {"loop"}
\* the master has returned from its last distribution MPI_Ssend and every
\* rank holds its block
DistributionComplete ==
    /\ pc[MASTER_PROCESS_RANK] \notin {"distribute", "distribute_ssend"}
    /\ dist_i = comm_size
    /\ \A v \in Workers : pc[v] # "distribute"

\* C23: in gpu.c, which has no barrier before the loop, no rank launches a
\* kernel before every rank has received its block: the first halo exchange
\* of a rank completes only after the master has returned from all its
\* distribution sends.
C23_ExchangeAfterDistribution ==
    build = "gpu_c" =>
        \A w \in Workers : ExchangedOnce(w) => DistributionComplete

\* gpu.c with the largest number of ranks: rank 1 has launched its first
\* kernel of iteration 0 while the master is still inside the exchange
C23_Witness ==
    /\ build = "gpu_c"
    /\ comm_size = MaxW
    /\ pc[1] = "kernel1"
    /\ iteration_count[1] = 0
    /\ pc[MASTER_PROCESS_RANK] = "recv_up"

\* ------------------------------------------------------------ C24
\* rank w returns from the MPI_Recv it is blocked in at position p
RecvStep(w, p) == pc[w] = p /\ pc'[w] # p
\* in this step rank w receives the pending message of rank src, which is of
\* the given kind and was sent in iteration k, and no other message is taken
Matched(w, src, kind, k) ==
    /\ ssend[src].dst = w
    /\ ssend[src].kind = kind
    /\ ssend[src].iter = k
    /\ ssend'[src] = NoMsg
    /\ \A v \in Workers \ {src} : ssend'[v] = ssend[v]
\* every rank has left the loop
AllLeftLoop == \A w \in Workers : pc[w] \in {"summary", "done"}

\* C24: point-to-point messages are never matched across phases or
\* iterations: the receive of the distribution on rank w takes the block the
\* master sent to w, a halo receive of iteration k takes the row the
\* neighbour on that side sent in its own iteration k in the matching
\* direction, and once every rank has left the loop no message is pending and
\* no rank is in a receive.
C24_MessagesMatch ==
    [][/\ \A w \in Workers :
              /\ (w # MASTER_PROCESS_RANK /\ RecvStep(w, "distribute")) =>
                     /\ Matched(w, MASTER_PROCESS_RANK, "chunk", 0)
                     /\ \A i \in OwnedRows :
                            temperatures_last'[w][i] =
                                all_temperatures[ChunkRow(w) + i - 1]
              /\ (down_neighbour_rank(w) # MPI_PROC_NULL /\ RecvStep(w, "recv_down")) =>
                     /\ Matched(w, down_neighbour_rank(w), "row_up", iteration_count[w])
                     /\ iteration_count[down_neighbour_rank(w)] = iteration_count[w]
                     /\ temperatures_last'[w][ROWS_PER_MPI_PROCESS + 1] =
                            dev_temperatures[down_neighbour_rank(w)][1]
              /\ (up_neighbour_rank(w) # MPI_PROC_NULL /\ RecvStep(w, "recv_up")) =>
                     /\ Matched(w, up_neighbour_rank(w), "row_down", iteration_count[w])
                     /\ iteration_count[up_neighbour_rank(w)] = iteration_count[w]
                     /\ temperatures_last'[w][0] =
                            dev_temperatures[up_neighbour_rank(w)][ROWS_PER_MPI_PROCESS]
       /\ \A src \in Workers :
              (ssend[src] # NoMsg /\ ssend'[src] = NoMsg) =>
                  \/ RecvStep(ssend[src].dst, "distribute")
                  \/ RecvStep(ssend[src].dst, "recv_down")
                  \/ RecvStep(ssend[src].dst, "recv_up")
       /\ AllLeftLoop' => \A w \in Workers : ssend'[w] = NoMsg]_vars

\* three ranks, a later iteration: the middle rank is in its receive from
\* below with both the row of its down neighbour and the row its up
\* neighbour sends down pending for it
C24_Witness ==
    /\ comm_size = MaxW
    /\ pc[1] = "recv_down"
    /\ iteration_count[1] > 0
    /\ ssend[2].dst = 1
    /\ ssend[0].dst = 1
    /\ ssend[0].buf # ssend[2].buf

\* ------------------------------------------------------------ C25
\* rank w assigns my_temperature_change in this step: the reset at the top of
\* the loop body, or SUBTASK 3
WritesSendBuffer(w) ==
    \/ pc[w] = "loop" /\ pc'[w] = "ssend_up"
    \/ MaxChangeStep(w)
\* the reductions rank w has started and not waited for
InFlight(w) == request1[w]

\* C25: the send buffer of a non-blocking reduction is not modified while the
\* reduction is in flight: a rank resets or recomputes my_temperature_change
\* only when it has waited for every reduction it started.
C25_SendBufferStable ==
    [][\A w \in Workers : WritesSendBuffer(w) => InFlight(w) = {}]_vars

\* ------------------------------------------------------------ C26
\* rank w is outside the loop body: the requests declared in the body are out
\* of scope
HandlesOutOfScope(w) == pc[w] \in {"loop", "summary", "done"}

\* C26: every non-blocking request a rank starts, the reduction request and
\* the request of the snapshot gather, has been completed by a wait of that
\* rank when the iteration ends, and so before MPI_Finalize.
C26_RequestsWaited ==
    \A w \in Workers :
        HandlesOutOfScope(w) => request1[w] = {} /\ gather_request[w] = {}

\* ------------------------------------------------------------ C27
\* rank w is at the test of while(total_time_so_far < MAX_TIME)
AtLoopTest(w) == pc[w] = "loop"

\* C27: at every evaluation of the loop condition, on every rank, the owned
\* rows of temperatures_last equal the owned rows of temperatures cell for
\* cell: on the device, where the loop computes, at every test, and on the
\* host at the first test, where the distribution and the copy established
\* it.
C27_LoopHeadInvariant ==
    \A w \in Workers :
        AtLoopTest(w) =>
            /\ \A i \in OwnedRows : \A j \in Cols :
                   dev_temperatures_last[w][i][j] = dev_temperatures[w][i][j]
            /\ iteration_count[w] = 0 =>
                   \A i \in OwnedRows : \A j \in Cols :
                       temperatures_last[w][i][j] = temperatures[w][i][j]

\* a rank at the loop test after two iterations, its rows on the device no
\* longer those of the block it was sent, which temperatures_last on the
\* host still holds
C27_Witness ==
    \E w \in Workers :
        /\ AtLoopTest(w)
        /\ iteration_count[w] >= 2
        /\ \E i \in OwnedRows : \E j \in Cols :
               dev_temperatures[w][i][j] # temperatures_last[w][i][j]

====
